---- MODULE Spec2Model ----
(***************************************************************************)
(* A model of android/base/Log.cpp: the growable message buffer            *)
(* (LogStream), the formatted message of LogString, the message records    *)
(* (LogMessage, ErrnoLogMessage) and the output dispatch (logMessage,      *)
(* defaultLogMessage, LogOutput::setNewOutput).                            *)
(*                                                                         *)
(* Text is a sequence of byte values 0..255.  A byte of an allocation that *)
(* was never written holds Indeterminate, which equals no byte value.      *)
(* A size_t argument is a two-limb number hi * 2^31 + lo, so that lengths  *)
(* above INT32_MAX are values of the model.                                *)
(***************************************************************************)
EXTENDS Integers, Sequences, FiniteSets, TLC

VARIABLES
    stream,       \* the LogStream under study: mString, mSize, mCapacity
    live,         \* whether that LogStream is between construction and destruction
    charSigned,   \* whether plain char is a signed type in this build
    prev,         \* history: the stream before the last operation
    lastIn,       \* history: the last operation on the stream and its arguments
    fedLen,       \* history: the sum of the lengths passed to append so far
    fedData,      \* history: the concatenation of the chunks passed so far
    nOps,         \* number of operations applied so far
    gLogOutput,   \* the installed sink, NULL when none
    lastInstall,  \* history: the argument and the result of the last setNewOutput
    recs,         \* the message records, by slot
    errno,        \* the ambient error code
    exited,       \* whether exit() was called
    exitStatus,   \* the status exit() was called with
    stderrBuf,    \* standard error: written and not flushed
    stderrOut,    \* standard error: flushed
    io,           \* the calls the last dispatch made, in order
    sinkLog,      \* what each sink's logMessage received, in order
    ls            \* the LogString constructor's locals and position

streamVars == <<stream, live, charSigned, prev, lastIn, fedLen, fedData, nOps>>
logVars == <<gLogOutput, lastInstall, recs, errno, exited, exitStatus, stderrBuf,
             stderrOut, io, sinkLog>>
vars == <<streamVars, logVars, ls>>

----------------------------------------------------------------------------
(* Program constants *)

INT32_MAX == 2147483647

LOG_INFO == 0
LOG_WARNING == 1
LOG_ERROR == 2
LOG_FATAL == 3
LOG_NUM_SEVERITIES == 4

NULL == 0

Indeterminate == -1

----------------------------------------------------------------------------
(* Bounds of the model *)

MaxStreamOps == 3
MaxCharOps == 2
MaxAppends == 1
MaxFmtLen == 450

----------------------------------------------------------------------------
(* size_t arguments: hi * 2^31 + lo, 0 <= lo <= INT32_MAX *)

SizeT(n) == [hi |-> 0, lo |-> n]

SizeAdd(a, b) ==
    IF a.lo > INT32_MAX - b.lo
    THEN [hi |-> a.hi + b.hi + 1, lo |-> (a.lo - INT32_MAX) + b.lo - 1]
    ELSE [hi |-> a.hi + b.hi, lo |-> a.lo + b.lo]

----------------------------------------------------------------------------
(* Text helpers *)

Prefix(s, n) == SubSeq(s, 1, n)

CStr(chars) == [isNull |-> FALSE, chars |-> chars]

NullStr == [isNull |-> TRUE, chars |-> <<>>]

strlen(str) == Len(str.chars)

----------------------------------------------------------------------------
(* LogStream *)

\* LogStream::LogStream: no buffer, size 0, capacity 0.
NewStream(file, lineno, severity) ==
    [mParams |-> [file |-> file, lineno |-> lineno, severity |-> severity],
     mString |-> <<>>, mSize |-> 0, mCapacity |-> 0,
     reallocs |-> 0, fault |-> FALSE]

\* The while loop of append: newCapacity += (newCapacity >> 2) + 32.
RECURSIVE GrowCapacity(_, _)
GrowCapacity(newCapacity, newSize) ==
    IF newCapacity < newSize
    THEN GrowCapacity(newCapacity + (newCapacity \div 4) + 32, newSize)
    ELSE newCapacity

\* realloc(p, n): the old bytes kept, the rest of the n bytes never written.
realloc(p, n) ==
    [i \in 1..n |-> IF i <= Len(p) THEN p[i] ELSE Indeterminate]

\* memcpy(dst + off, src, n); a write outside the allocation is a fault.
memcpy(s, off, src, n) ==
    IF off + n > Len(s.mString)
    THEN [s EXCEPT !.fault = TRUE]
    ELSE [s EXCEPT !.mString =
            [i \in 1..Len(@) |->
                IF i > off /\ i <= off + n
                THEN (IF i - off <= Len(src) THEN src[i - off] ELSE Indeterminate)
                ELSE @[i]]]

append_NoZeroCheck(s, str, len) ==
    IF len.hi > 0 \/ len.lo > INT32_MAX
    THEN s
    ELSE LET newSize == s.mSize + len.lo
             grown == IF newSize > s.mCapacity
                      THEN LET newCapacity == GrowCapacity(s.mCapacity, newSize)
                           IN  [s EXCEPT !.mString = realloc(@, newCapacity + 1),
                                         !.mCapacity = newCapacity,
                                         !.reallocs = @ + 1]
                      ELSE s
             copied == memcpy(grown, grown.mSize, str, len.lo)
             sized == [copied EXCEPT !.mSize = @ + len.lo]
         IN  memcpy(sized, sized.mSize, <<0>>, 1)

append_NoTerminator(s, str, len) ==
    IF (len.hi = 0 /\ len.lo = 0) \/ len.hi > 0 \/ len.lo > INT32_MAX
    THEN s
    ELSE LET newSize == s.mSize + len.lo
             grown == IF newSize > s.mCapacity
                      THEN LET newCapacity == GrowCapacity(s.mCapacity, newSize)
                           IN  [s EXCEPT !.mString = realloc(@, newCapacity + 1),
                                         !.mCapacity = newCapacity,
                                         !.reallocs = @ + 1]
                      ELSE s
             copied == memcpy(grown, grown.mSize, str, len.lo)
         IN  [copied EXCEPT !.mSize = @ + len.lo]

append_GrowOnce(s, str, len) ==
    IF (len.hi = 0 /\ len.lo = 0) \/ len.hi > 0 \/ len.lo > INT32_MAX
    THEN s
    ELSE LET newSize == s.mSize + len.lo
             grown == IF newSize > s.mCapacity
                      THEN LET newCapacity ==
                                   s.mCapacity + (s.mCapacity \div 4) + 32
                           IN  [s EXCEPT !.mString = realloc(@, newCapacity + 1),
                                         !.mCapacity = newCapacity,
                                         !.reallocs = @ + 1]
                      ELSE s
             copied == memcpy(grown, grown.mSize, str, len.lo)
             sized == [copied EXCEPT !.mSize = @ + len.lo]
         IN  memcpy(sized, sized.mSize, <<0>>, 1)

\* LogStream::append(const char* str, size_t len)
append(s, str, len) ==
    IF (len.hi = 0 /\ len.lo = 0) \/ len.hi > 0 \/ len.lo > INT32_MAX
    THEN s
    ELSE LET newSize == s.mSize + len.lo
             grown == IF newSize > s.mCapacity
                      THEN LET newCapacity == GrowCapacity(s.mCapacity, newSize)
                           IN  [s EXCEPT !.mString = realloc(@, newCapacity + 1),
                                         !.mCapacity = newCapacity,
                                         !.reallocs = @ + 1]
                      ELSE s
             copied == memcpy(grown, grown.mSize, str, len.lo)
             sized == [copied EXCEPT !.mSize = @ + len.lo]
         IN  memcpy(sized, sized.mSize, <<0>>, 1)

\* LogStream::append(const char* str)
appendCStr(s, str) ==
    IF ~str.isNull /\ str.chars # <<>>
    THEN append(s, str.chars, SizeT(strlen(str)))
    ELSE s

\* LogStream::~LogStream: the sizes reset, the buffer freed.
DestroyedStream(s) ==
    [s EXCEPT !.mSize = 0, !.mCapacity = 0, !.mString = <<>>]


----------------------------------------------------------------------------
(* Formatting *)

\* snprintf(buf, size, ...) of a text: at most size - 1 characters and a
\* null are stored; the full length is returned.
Snprintf(size, text) ==
    [out |-> Prefix(text, IF Len(text) < size - 1 THEN Len(text) ELSE size - 1)
                \o <<0>>,
     ret |-> Len(text)]

\* A lowercase hex digit.
HexChar(d) == IF d < 10 THEN 48 + d ELSE 87 + d

RECURSIVE StripZeros(_)
StripZeros(ds) ==
    IF Len(ds) > 1 /\ Head(ds) = 0 THEN StripZeros(Tail(ds)) ELSE ds

\* "%02x" of an int argument: the argument is read as a 32-bit unsigned
\* value (two's complement), printed in hex, padded with zeros to width 2.
FormatHex02(v) ==
    LET nibbles == [k \in 1..8 |-> (v \div (16 ^ (8 - k))) % 16]
        ds == StripZeros(nibbles)
        padded == IF Len(ds) < 2 THEN <<0>> \o ds ELSE ds
    IN  [k \in 1..Len(padded) |-> HexChar(padded[k])]

RECURSIVE DecDigits(_)
DecDigits(n) ==
    IF n < 10 THEN <<48 + n>> ELSE DecDigits(n \div 10) \o <<48 + (n % 10)>>

\* "%d" of an int.
FormatDec(v) == IF v < 0 THEN <<45>> \o DecDigits(0 - v) ELSE DecDigits(v)

\* LogStream::operator<<(char ch); ch is the value of the char in this build.
opShlChar(s, ch) ==
    IF ch >= 32 /\ ch < 127
    THEN append(s, <<ch>>, SizeT(1))
    ELSE LET temp == Snprintf(5, <<92, 120>> \o FormatHex02(ch))
         IN  append(s, temp.out, SizeT(4))

\* LogStream::operator<<(int v)
opShlInt(s, v) ==
    LET temp == Snprintf(20, FormatDec(v))
    IN  append(s, temp.out, SizeT(temp.ret))

\* LogStream::operator<<(const char* str), declared inline: append(str).
opShlCStr(s, str) == appendCStr(s, str)

\* LogStream::string() and size(): the text held, without its terminator.
StreamText(s) == Prefix(s.mString, s.mSize)

----------------------------------------------------------------------------
(* Records and dispatch *)

ENOENT == 2
ENOMEM == 12

\* The record slots: two logging statements of the program, a LOG(...) at
\* f.cc:10 and a PLOG(...) at a.h:7.
Recs == {1, 2}

Kind(r) == IF r = 1 THEN "LogMessage" ELSE "ErrnoLogMessage"

\* The sinks a test may install.
Sinks == {1, 2}

\* __FILE__ and __LINE__ of the two statements.
OriginFile(r) == IF r = 1 THEN <<102, 46, 99, 99>> ELSE <<97, 46, 104>>

OriginLine(r) == IF r = 1 THEN 10 ELSE 7

Severities == {LOG_WARNING, LOG_FATAL}

\* The values a library call may leave in errno.
Clobbers(e) == {e, ENOMEM}

\* strerror(code)
strerror(code) ==
    IF code = ENOENT THEN CStr(<<78, 111, 32, 115, 117, 99, 104, 32, 102, 105, 108, 101, 32, 111, 114, 32, 100, 105, 114, 101, 99, 116, 111, 114, 121>>)
    ELSE IF code = ENOMEM THEN CStr(<<67, 97, 110, 110, 111, 116, 32, 97, 108, 108, 111, 99, 97, 116, 101, 32, 109, 101, 109, 111, 114, 121>>)
    ELSE CStr(<<83, 117, 99, 99, 101, 115, 115>>)

ErrorMessagePrefix == CStr(<<69, 114, 114, 111, 114, 32, 109, 101, 115, 115, 97, 103, 101, 58, 32>>)

\* severityLevelToString
severityLevelToString(severity) ==
    IF severity >= 0 /\ severity < LOG_NUM_SEVERITIES
    THEN <<<<73, 78, 70, 79>>, <<87, 65, 82, 78, 73, 78, 71>>, <<69, 82, 82, 79, 82>>, <<70, 65, 84, 65, 76>>>>[severity + 1]
    ELSE <<85, 78, 75, 78, 79, 87, 78>>

RECURSIVE UntilNul(_)
UntilNul(s) ==
    IF s = <<>> \/ Head(s) = 0 THEN <<>> ELSE <<Head(s)>> \o UntilNul(Tail(s))

\* "%.*s" with precision n: the characters of message up to its null, at most n.
PrintfPrecS(n, message) ==
    UntilNul(Prefix(message, IF n < Len(message) THEN n ELSE Len(message)))

IoCall(call, text, n) == [call |-> call, text |-> text, n |-> n]

\* The output state a dispatch acts on.
World ==
    [stderrBuf |-> stderrBuf, stderrOut |-> stderrOut, io |-> <<>>,
     sinkLog |-> sinkLog, exited |-> exited, exitStatus |-> exitStatus]

fprintf(w, text) ==
    [w EXCEPT !.stderrBuf = @ \o text, !.io = Append(@, IoCall("fprintf", text, 0))]

fflush(w) ==
    [w EXCEPT !.stderrOut = @ \o w.stderrBuf, !.stderrBuf = <<>>,
              !.io = Append(@, IoCall("fflush", <<>>, 0))]

\* exit(status): the open streams are flushed and the process ends.
exit(w, status) ==
    [w EXCEPT !.stderrOut = @ \o w.stderrBuf, !.stderrBuf = <<>>,
              !.exited = TRUE, !.exitStatus = status,
              !.io = Append(@, IoCall("exit", <<>>, status))]

defaultLogMessage_NoFlush(w, params, message, messageLen) ==
    LET printed == fprintf(w, severityLevelToString(params.severity) \o <<58>>
                              \o params.file \o <<58>>
                              \o FormatDec(params.lineno) \o <<58>>
                              \o PrintfPrecS(messageLen, message) \o <<10>>)
    IN  IF params.severity >= LOG_FATAL THEN exit(printed, 1) ELSE printed

defaultLogMessage_NoExit(w, params, message, messageLen) ==
    LET printed == fprintf(w, severityLevelToString(params.severity) \o <<58>>
                              \o params.file \o <<58>>
                              \o FormatDec(params.lineno) \o <<58>>
                              \o PrintfPrecS(messageLen, message) \o <<10>>)
    IN  fflush(printed)

\* defaultLogMessage: "%s:%s:%d:%.*s\n" to stderr, fflush, exit(1) on FATAL.
defaultLogMessage(w, params, message, messageLen) ==
    LET printed == fprintf(w, severityLevelToString(params.severity) \o <<58>>
                              \o params.file \o <<58>>
                              \o FormatDec(params.lineno) \o <<58>>
                              \o PrintfPrecS(messageLen, message) \o <<10>>)
        flushed == fflush(printed)
    IN  IF params.severity >= LOG_FATAL THEN exit(flushed, 1) ELSE flushed

\* gLogOutput->logMessage(params, message, messageLen): the sink takes the
\* record and does nothing else.
SinkLogMessage(w, sink, params, message, messageLen) ==
    [w EXCEPT !.sinkLog[sink] =
                  Append(@, [params |-> params,
                             message |-> Prefix(message, messageLen),
                             messageLen |-> messageLen]),
              !.io = Append(@, IoCall("sink", <<>>, sink))]

\* logMessage: to the installed sink, or to defaultLogMessage when none.
logMessage(w, params, message, messageLen) ==
    IF gLogOutput # NULL
    THEN SinkLogMessage(w, gLogOutput, params, message, messageLen)
    ELSE defaultLogMessage(w, params, message, messageLen)

NoRec ==
    [state |-> "none", kind |-> "none", mStream |-> NewStream(<<>>, 0, LOG_INFO),
     mErrno |-> 0, given |-> [file |-> <<>>, lineno |-> 0, severity |-> LOG_INFO],
     said |-> <<>>, nAppends |-> 0, dispatched |-> 0,
     sent |-> [params |-> [file |-> <<>>, lineno |-> 0, severity |-> LOG_INFO],
               message |-> <<>>, messageLen |-> 0]]

\* LogMessage::LogMessage and ErrnoLogMessage::ErrnoLogMessage
NewRecord(kind, file, line, severity, errnoCode) ==
    [NoRec EXCEPT !.state = "live", !.kind = kind,
                  !.mStream = NewStream(file, line, severity),
                  !.mErrno = errnoCode,
                  !.given = [file |-> file, lineno |-> line, severity |-> severity]]

\* The call logMessage(mStream->params(), mStream->string(), mStream->size())
\* of a destructor, then delete mStream unless the process has exited.
DispatchAndDelete(rec, s, w) ==
    LET w2 == logMessage(w, s.mParams, StreamText(s), s.mSize)
        r2 == [rec EXCEPT !.dispatched = @ + 1,
                          !.sent = [params |-> s.mParams, message |-> StreamText(s),
                                    messageLen |-> s.mSize]]
    IN  [w |-> w2,
         rec |-> IF w2.exited
                 THEN [r2 EXCEPT !.state = "destroying", !.mStream = s]
                 ELSE [r2 EXCEPT !.state = "destroyed",
                                 !.mStream = DestroyedStream(s)]]

LogMessageDtor_DeleteFirst(rec, w) ==
    DispatchAndDelete(rec, DestroyedStream(rec.mStream), w)

\* LogMessage::~LogMessage
LogMessageDtor(rec, w) == DispatchAndDelete(rec, rec.mStream, w)

\* ErrnoLogMessage::~ErrnoLogMessage, up to delete mStream.
ErrnoLogMessageDtor(rec, w) ==
    DispatchAndDelete(rec,
        opShlCStr(opShlCStr(rec.mStream, ErrorMessagePrefix), strerror(rec.mErrno)),
        w)

RestoreErrno_Missing(ambient, mErrno) == ambient

\* errno = mErrno, the last statement of ErrnoLogMessage::~ErrnoLogMessage;
\* ambient is what the appends, strerror and the dispatch left in errno.
RestoreErrno(ambient, mErrno) == mErrno

setNewOutput_KeepsFirst(newOutput) ==
    [ret |-> gLogOutput,
     gLogOutput |-> IF gLogOutput = NULL THEN newOutput ELSE gLogOutput]

\* LogOutput::setNewOutput
setNewOutput(newOutput) ==
    [ret |-> gLogOutput, gLogOutput |-> newOutput]

LogIdle ==
    /\ gLogOutput = NULL
    /\ lastInstall = [arg |-> NULL, ret |-> NULL]
    /\ recs = [r \in Recs |-> NoRec]
    /\ errno = 0
    /\ exited = FALSE
    /\ exitStatus = 0
    /\ stderrBuf = <<>>
    /\ stderrOut = <<>>
    /\ io = <<>>
    /\ sinkLog = [s \in Sinks |-> <<>>]

----------------------------------------------------------------------------
(* Inputs of the buffer specifications *)

ChunkLens == {0, 1, 31, 33, 41}

ChunkFills == {0, 65}

\* A chunk of n bytes counting up from b.
ChunkData(b, n) == [i \in 1..n |-> (b + i - 1) % 256]

Chunks ==
    {[data |-> ChunkData(b, n), len |-> SizeT(n)] : b \in ChunkFills, n \in ChunkLens}
    \cup {[data |-> ChunkData(65, 1), len |-> [hi |-> 1, lo |-> 0]]}

Texts == {NullStr, CStr(<<>>), CStr(<<104, 105>>)}

Ints == {0, 42, 0 - 7}

CharValues == IF charSigned THEN (0 - 128)..127 ELSE 0..255

NoInput == [op |-> "none", len |-> SizeT(0), data |-> <<>>, isNull |-> FALSE, ch |-> 0]

LogStringIdle ==
    [pc |-> "idle", fmtLen |-> 0, capacity |-> 0, alloc |-> 0, ret |-> 0,
     attempts |-> 0, limit |-> 0, written |-> 0, mString |-> "NULL"]

StreamIdle ==
    /\ stream = NewStream(<<>>, 0, LOG_INFO)
    /\ live = TRUE
    /\ prev = NewStream(<<>>, 0, LOG_INFO)
    /\ lastIn = NoInput
    /\ fedLen = SizeT(0)
    /\ fedData = <<>>
    /\ nOps = 0

----------------------------------------------------------------------------
(* The buffer under appends of byte chunks and C strings *)

InitStream ==
    /\ StreamIdle
    /\ charSigned = TRUE
    /\ LogIdle
    /\ ls = LogStringIdle

\* A call of append(str, len).
AppendBytes(c) ==
    /\ live
    /\ nOps < MaxStreamOps
    /\ stream' = append(stream, c.data, c.len)
    /\ prev' = stream
    /\ lastIn' = [op |-> "append", len |-> c.len, data |-> c.data,
                  isNull |-> FALSE, ch |-> 0]
    /\ fedLen' = SizeAdd(fedLen, c.len)
    /\ fedData' = fedData \o c.data
    /\ nOps' = nOps + 1
    /\ UNCHANGED <<live, charSigned, logVars, ls>>

\* A call of append(str).
AppendCStr(str) ==
    /\ live
    /\ nOps < MaxStreamOps
    /\ stream' = appendCStr(stream, str)
    /\ prev' = stream
    /\ lastIn' = [op |-> "appendCStr", len |-> SizeT(strlen(str)),
                  data |-> str.chars, isNull |-> str.isNull, ch |-> 0]
    /\ fedLen' = SizeAdd(fedLen, SizeT(strlen(str)))
    /\ fedData' = fedData \o str.chars
    /\ nOps' = nOps + 1
    /\ UNCHANGED <<live, charSigned, logVars, ls>>

\* The end of the stream's lifetime.
DestroyStream ==
    /\ live
    /\ live' = FALSE
    /\ stream' = DestroyedStream(stream)
    /\ prev' = stream
    /\ lastIn' = [NoInput EXCEPT !.op = "destroy"]
    /\ UNCHANGED <<charSigned, fedLen, fedData, nOps, logVars, ls>>

NextStream ==
    \/ \E c \in Chunks : AppendBytes(c)
    \/ \E str \in Texts : AppendCStr(str)
    \/ DestroyStream

SpecStream == InitStream /\ [][NextStream]_vars

----------------------------------------------------------------------------
(* The buffer under the formatting operators, for every char value *)

InitChar ==
    /\ StreamIdle
    /\ charSigned \in BOOLEAN
    /\ LogIdle
    /\ ls = LogStringIdle

StreamOp(op, s, len, data, isNull, ch) ==
    /\ live
    /\ nOps < MaxCharOps
    /\ stream' = s
    /\ prev' = stream
    /\ lastIn' = [op |-> op, len |-> len, data |-> data, isNull |-> isNull, ch |-> ch]
    /\ fedLen' = fedLen
    /\ fedData' = fedData
    /\ nOps' = nOps + 1
    /\ UNCHANGED <<live, charSigned, logVars, ls>>

\* stream << ch
StreamChar(ch) ==
    StreamOp("char", opShlChar(stream, ch), SizeT(1), <<>>, FALSE, ch)

\* stream << v
StreamInt(v) ==
    StreamOp("int", opShlInt(stream, v), SizeT(0), <<>>, FALSE, v)

\* stream << str
StreamCStr(str) ==
    StreamOp("cstr", opShlCStr(stream, str), SizeT(strlen(str)), str.chars,
             str.isNull, 0)

NextChar ==
    \/ \E ch \in CharValues : StreamChar(ch)
    \/ \E v \in Ints : StreamInt(v)
    \/ \E str \in Texts : StreamCStr(str)

SpecChar == InitChar /\ [][NextChar]_vars


----------------------------------------------------------------------------
(* Claims about the buffer *)

AppendOps == {"append", "appendCStr"}

\* The stream holds exactly the text fed to it, null-terminated.
HoldsFedText ==
    /\ fedLen = SizeT(stream.mSize)
    /\ StreamText(stream) = fedData
    /\ Len(stream.mString) > stream.mSize
    /\ stream.mString[stream.mSize + 1] = 0

\* C4 as stated: after appending any sequence of chunks of total length L
\* to an empty stream, the length is L, the first L bytes are the chunks in
\* order and the byte at index L is null, whatever the chunk sizes.
C4_AnyChunks == (live /\ nOps > 0) => HoldsFedText

\* C4 as amended: the same, for chunks that are each at most INT32_MAX long
\* and of total length at least 1; with total length 0 the stream has
\* length 0 and no buffer at all.
C4_AcceptedChunks ==
    /\ (live /\ fedLen.hi = 0 /\ fedLen.lo >= 1) => HoldsFedText
    /\ (live /\ fedLen = SizeT(0)) => (stream.mSize = 0 /\ stream.mString = <<>>)

C4_Witness ==
    /\ live
    /\ fedLen.hi = 0
    /\ stream.reallocs >= 2
    /\ stream.mSize > 72
    /\ lastIn.op = "append"

\* An append the code drops: zero length, a length above INT32_MAX, a null
\* or an empty C string.
DroppedInput ==
    /\ lastIn.op \in AppendOps
    /\ \/ lastIn.len = SizeT(0)
       \/ lastIn.len.hi > 0
       \/ lastIn.len.lo > INT32_MAX
       \/ lastIn.isNull

\* C8: an append of zero length, of a length above INT32_MAX, of a null or
\* of an empty C string changes nothing of the stream: length, capacity,
\* bytes, allocation.
C8_DroppedAppendIsNoOp == DroppedInput => stream = prev

C8_Witness ==
    /\ DroppedInput
    /\ lastIn.len.hi > 0
    /\ prev.mSize > 0
    /\ nOps = MaxStreamOps

\* One growth step, as the claim words it: cap += cap/4 + 32.
GrowStep(cap) == cap + (cap \div 4) + 32

RECURSIVE GrowSteps(_, _)
GrowSteps(cap, k) == IF k = 0 THEN cap ELSE GrowSteps(GrowStep(cap), k - 1)

\* c2 is the first value of the growth sequence from c that is >= n.
FirstSufficient(c, n, c2) ==
    \E k \in 1..(n \div 32 + 1) :
        /\ GrowSteps(c, k) = c2
        /\ c2 >= n
        /\ GrowSteps(c, k - 1) < n

\* C9: length <= capacity always; over an append the capacity never
\* decreases: it is unchanged when the new length fits, and otherwise it is
\* the first value of the sequence cap += cap/4 + 32 that is at least the new
\* length; the allocation holds capacity + 1 bytes.
C9_Capacity ==
    /\ stream.mSize <= stream.mCapacity
    /\ ~stream.fault
    /\ live => \/ stream.mString = <<>> /\ stream.mCapacity = 0
               \/ Len(stream.mString) = stream.mCapacity + 1
    /\ (live /\ lastIn.op \in AppendOps) =>
          /\ stream.mCapacity >= prev.mCapacity
          /\ stream.mSize <= prev.mCapacity => stream.mCapacity = prev.mCapacity
          /\ stream.mSize > prev.mCapacity =>
                FirstSufficient(prev.mCapacity, stream.mSize, stream.mCapacity)

C9_Witness ==
    /\ live
    /\ lastIn.op = "append"
    /\ prev.mCapacity > 0
    /\ stream.mCapacity >= GrowStep(GrowStep(prev.mCapacity))

\* The text the claim expects for a char whose byte value is b.
EscapedByte(b) ==
    IF b >= 32 /\ b <= 126
    THEN <<b>>
    ELSE <<92, 120, HexChar(b \div 16), HexChar(b % 16)>>

\* C7: streaming a char appends the byte itself when it is printable ASCII
\* and otherwise backslash, x and the two hex digits of the byte's value,
\* for every byte value, also 0x80..0xFF held in a signed char.
C7_CharEscape ==
    lastIn.op = "char" =>
        StreamText(stream) = StreamText(prev) \o EscapedByte(lastIn.ch % 256)


----------------------------------------------------------------------------
(* LogString::LogString(const char* fmt, ...) *)

\* vsnprintf(message, size, fmt, args) of a text of n characters (C99):
\* at most size bytes are stored, the terminating null among them, and n
\* is returned.
Vsnprintf(size, n) ==
    [ret |-> n,
     stored |-> IF size = 0 THEN 0 ELSE (IF n < size - 1 THEN n ELSE size - 1) + 1]

InitLogString ==
    /\ StreamIdle
    /\ charSigned = TRUE
    /\ LogIdle
    /\ ls = LogStringIdle

\* Entry: mString(NULL), capacity = 100, message = malloc(capacity).
\* n is the length of the text that fmt and the arguments format to.
LogStringEnter(n) ==
    /\ ls.pc = "idle"
    /\ ls' = [ls EXCEPT !.pc = "loop", !.fmtLen = n, !.capacity = 100,
                        !.alloc = 100]
    /\ UNCHANGED <<streamVars, logVars>>

\* One turn of the for (;;) loop.  A store past the allocation is undefined
\* behaviour: the run goes on or the process dies.
LogStringAttempt ==
    /\ ls.pc = "loop"
    /\ LET r == Vsnprintf(ls.capacity, ls.fmtLen)
           tried == [ls EXCEPT !.limit = ls.capacity, !.ret = r.ret,
                               !.written = r.stored, !.attempts = @ + 1]
           after == IF r.ret >= 0 /\ r.ret < ls.capacity
                    THEN [tried EXCEPT !.pc = "done", !.mString = "message"]
                    ELSE [tried EXCEPT !.capacity = @ * 2]
       IN  \/ ls' = after
           \/ /\ r.stored > ls.alloc
              /\ ls' = [tried EXCEPT !.pc = "crashed"]
    /\ UNCHANGED <<streamVars, logVars>>

NextLogString ==
    \/ \E n \in 0..MaxFmtLen : LogStringEnter(n)
    \/ LogStringAttempt

SpecLogString == InitLogString /\ [][NextLogString]_vars

\* C10: on every formatting attempt the size limit given to the formatter
\* is at most the number of bytes allocated for the buffer, and the
\* constructor ends with the whole formatted text and its null in the buffer.
C10_LimitWithinAllocation ==
    /\ ls.attempts > 0 => ls.limit <= ls.alloc
    /\ ls.pc # "crashed"
    /\ ls.pc = "done" => (ls.written = ls.fmtLen + 1 /\ ls.written <= ls.alloc)


----------------------------------------------------------------------------
(* Records, sinks and dispatch *)

Init ==
    /\ StreamIdle
    /\ charSigned = TRUE
    /\ LogIdle
    /\ ls = LogStringIdle

SetWorld(w) ==
    /\ stderrBuf' = w.stderrBuf
    /\ stderrOut' = w.stderrOut
    /\ io' = w.io
    /\ sinkLog' = w.sinkLog
    /\ exited' = w.exited
    /\ exitStatus' = w.exitStatus

\* LogOutput::setNewOutput(newOutput)
SetNewOutput(newOutput) ==
    /\ ~exited
    /\ LET r == setNewOutput(newOutput)
       IN  /\ gLogOutput' = r.gLogOutput
           /\ lastInstall' = [arg |-> newOutput, ret |-> r.ret]
    /\ UNCHANGED <<recs, errno, exited, exitStatus, stderrBuf, stderrOut, io,
                   sinkLog, streamVars, ls>>

\* LogMessage(file, line, severity)
NewLogMessage(r, severity) ==
    /\ ~exited
    /\ Kind(r) = "LogMessage"
    /\ recs[r].state = "none"
    /\ recs' = [recs EXCEPT ![r] = NewRecord("LogMessage", OriginFile(r),
                                             OriginLine(r), severity, 0)]
    /\ UNCHANGED <<gLogOutput, lastInstall, errno, exited, exitStatus, stderrBuf,
                   stderrOut, io, sinkLog, streamVars, ls>>

\* ErrnoLogMessage(file, line, severity, errnoCode)
NewErrnoLogMessage(r, severity, errnoCode) ==
    /\ ~exited
    /\ Kind(r) = "ErrnoLogMessage"
    /\ recs[r].state = "none"
    /\ recs' = [recs EXCEPT ![r] = NewRecord("ErrnoLogMessage", OriginFile(r),
                                             OriginLine(r), severity, errnoCode)]
    /\ UNCHANGED <<gLogOutput, lastInstall, errno, exited, exitStatus, stderrBuf,
                   stderrOut, io, sinkLog, streamVars, ls>>

RecStream(r, s, text, e) ==
    /\ ~exited
    /\ recs[r].state = "live"
    /\ recs[r].nAppends < MaxAppends
    /\ recs' = [recs EXCEPT ![r].mStream = s,
                            ![r].said = @ \o text,
                            ![r].nAppends = @ + 1]
    /\ errno' = e
    /\ UNCHANGED <<gLogOutput, lastInstall, exited, exitStatus, stderrBuf,
                   stderrOut, io, sinkLog, streamVars, ls>>

\* record.stream() << str
RecStreamCStr(r, str, e) ==
    RecStream(r, opShlCStr(recs[r].mStream, str), str.chars, e)

\* record.stream() << v
RecStreamInt(r, v, e) ==
    RecStream(r, opShlInt(recs[r].mStream, v), FormatDec(v), e)

\* ~LogMessage(); the dispatch may leave any value in errno.
DestroyLogMessage(r, e) ==
    /\ ~exited
    /\ recs[r].state = "live"
    /\ recs[r].kind = "LogMessage"
    /\ LET d == LogMessageDtor(recs[r], World)
       IN  /\ SetWorld(d.w)
           /\ recs' = [recs EXCEPT ![r] = d.rec]
           /\ errno' = IF d.w.exited THEN errno ELSE e
    /\ UNCHANGED <<gLogOutput, lastInstall, streamVars, ls>>

\* ~ErrnoLogMessage(); e is what the appends, strerror and the dispatch
\* left in errno.  After exit() nothing more of the destructor runs.
DestroyErrnoLogMessage(r, e) ==
    /\ ~exited
    /\ recs[r].state = "live"
    /\ recs[r].kind = "ErrnoLogMessage"
    /\ LET d == ErrnoLogMessageDtor(recs[r], World)
       IN  /\ SetWorld(d.w)
           /\ recs' = [recs EXCEPT ![r] = d.rec]
           /\ errno' = IF d.w.exited THEN errno ELSE RestoreErrno(e, recs[r].mErrno)
    /\ UNCHANGED <<gLogOutput, lastInstall, streamVars, ls>>

Next ==
    \/ \E s \in Sinks \cup {NULL} : SetNewOutput(s)
    \/ \E r \in Recs, sev \in Severities : NewLogMessage(r, sev)
    \/ \E r \in Recs, sev \in Severities : NewErrnoLogMessage(r, sev, ENOENT)
    \/ \E r \in Recs, str \in {NullStr, CStr(<<120>>)}, e \in Clobbers(errno) :
          RecStreamCStr(r, str, e)
    \/ \E r \in Recs, e \in Clobbers(errno) : RecStreamInt(r, 42, e)
    \/ \E r \in Recs, e \in Clobbers(errno) : DestroyLogMessage(r, e)
    \/ \E r \in Recs, e \in Clobbers(errno) : DestroyErrnoLogMessage(r, e)

Spec == Init /\ [][Next]_vars


----------------------------------------------------------------------------
(* Claims about records, sinks and dispatch *)

\* This step dispatches record r.
Dispatched(r) == recs'[r].dispatched = recs[r].dispatched + 1

IsFatal(r) == recs[r].given.severity = LOG_FATAL

\* C1 as stated: a FATAL dispatch always ends the process, with or without
\* a sink installed.
C1_FatalAlwaysTerminates ==
    [][\A r \in Recs : (Dispatched(r) /\ IsFatal(r)) => exited']_vars

\* C1 as amended: a FATAL dispatch with no sink installed ends the process
\* with status 1 and no logging operation runs after it; a FATAL dispatch
\* with a sink installed is handed to the sink and the process goes on.
C1_FatalTerminatesByDefault ==
    [][/\ ~exited
       /\ \A r \in Recs :
            (Dispatched(r) /\ IsFatal(r)) =>
                IF gLogOutput = NULL
                THEN /\ exited'
                     /\ exitStatus' = 1
                     /\ io'[Len(io')] = IoCall("exit", <<>>, 1)
                ELSE /\ ~exited'
                     /\ Len(sinkLog'[gLogOutput]) = Len(sinkLog[gLogOutput]) + 1
                     /\ io' = <<IoCall("sink", <<>>, gLogOutput)>>]_vars

C1_Witness ==
    /\ exited
    /\ recs[1].state = "destroyed"
    /\ recs[1].given.severity = LOG_FATAL
    /\ recs[2].state = "destroying"
    /\ recs[2].given.severity = LOG_FATAL

\* What record r hands over in the step that dispatches it.
Payload(r) ==
    [params |-> recs[r].given, message |-> recs'[r].sent.message,
     messageLen |-> recs'[r].sent.messageLen]

\* C2: each setNewOutput call returns the argument of the call before it
\* (NULL for the first), and a dispatch goes to the most recently installed
\* sink only, no other sink and not standard error; to standard error when
\* the most recently installed value is NULL.
C2_LatestSinkOnly ==
    [][/\ lastInstall' # lastInstall => lastInstall'.ret = lastInstall.arg
       /\ \A r \in Recs :
            Dispatched(r) =>
                IF lastInstall.arg # NULL
                THEN /\ sinkLog' = [sinkLog EXCEPT ![lastInstall.arg] =
                                        Append(@, Payload(r))]
                     /\ stderrOut' = stderrOut
                     /\ stderrBuf' = stderrBuf
                ELSE /\ sinkLog' = sinkLog
                     /\ Len(stderrOut') > Len(stderrOut)]_vars

C2_Witness ==
    /\ lastInstall = [arg |-> 2, ret |-> 1]
    /\ Len(sinkLog[2]) = 2
    /\ sinkLog[1] = <<>>
    /\ stderrOut = <<>>

\* The text an ErrnoLogMessage adds at its destruction.
ErrnoSuffix(code) ==
    <<69, 114, 114, 111, 114, 32, 109, 101, 115, 115, 97, 103, 101, 58, 32>> \o strerror(code).chars

\* The text record r must dispatch: what was streamed into it, then the
\* errno suffix for an ErrnoLogMessage.
FullText(r) ==
    recs[r].said \o (IF recs[r].kind = "ErrnoLogMessage"
                     THEN ErrnoSuffix(recs[r].mErrno) ELSE <<>>)

RECURSIVE CountByte(_, _)
CountByte(s, b) ==
    IF s = <<>> THEN 0
    ELSE (IF Head(s) = b THEN 1 ELSE 0) + CountByte(Tail(s), b)

RECURSIVE Sum(_, _)
Sum(f, S) ==
    IF S = {} THEN 0
    ELSE LET x == CHOOSE y \in S : TRUE IN f[x] + Sum(f, S \ {x})

C5_ErrnoRestored ==
    [][\A r \in Recs :
          (recs[r].kind = "ErrnoLogMessage" /\ recs[r].state = "live"
              /\ recs'[r].state = "destroyed") =>
                /\ errno' = recs[r].mErrno
                /\ recs'[r].dispatched = 1
                /\ recs'[r].sent.message = recs[r].said \o ErrnoSuffix(recs[r].mErrno)]_vars

C5_Witness ==
    /\ recs[2].state = "destroyed"
    /\ recs[2].said # <<>>
    /\ errno = recs[2].mErrno
    /\ errno # 0

\* The line the claim expects on standard error for record r.
ExpectedLine(r) ==
    (IF recs[r].given.severity = LOG_FATAL THEN <<70, 65, 84, 65, 76>>
     ELSE IF recs[r].given.severity = LOG_WARNING THEN <<87, 65, 82, 78, 73, 78, 71>>
     ELSE IF recs[r].given.severity = LOG_ERROR THEN <<69, 82, 82, 79, 82>>
     ELSE <<73, 78, 70, 79>>)
    \o <<58>> \o OriginFile(r) \o <<58>>
    \o (IF r = 1 THEN <<49, 48>> ELSE <<55>>)
    \o <<58>> \o recs'[r].sent.message \o <<10>>

\* C6: with no sink installed, a dispatch writes the whole line
\* SEVERITY:file:line:message and a newline to standard error and flushes
\* it, for every severity, and for FATAL then exits with status 1.
C6_WriteFlushThenExit ==
    [][\A r \in Recs :
          (Dispatched(r) /\ gLogOutput = NULL) =>
              /\ io' = <<IoCall("fprintf", ExpectedLine(r), 0),
                         IoCall("fflush", <<>>, 0)>>
                       \o (IF IsFatal(r) THEN <<IoCall("exit", <<>>, 1)>> ELSE <<>>)
              /\ stderrOut' = stderrOut \o ExpectedLine(r)
              /\ stderrBuf' = <<>>
              /\ exited' = IsFatal(r)
              /\ IsFatal(r) => exitStatus' = 1]_vars

C6_Witness ==
    /\ exited
    /\ exitStatus = 1
    /\ Len(io) = 3
    /\ stderrBuf = <<>>
    /\ \E r \in Recs : recs[r].state = "destroying" /\ recs[r].said # <<>>

====
